---- MODULE Spec2Model ----
(***************************************************************************)
(* execute-sync: replication loop (src/src/main.go) and the chunker of the *)
(* warehouse adapters (src/src/internal/warehouses/snowflake/snowflake.go).*)
(*                                                                         *)
(* Cursors (X-Sync-Highwater-Mark values, the contents of                  *)
(* last_sync_date.txt) are timestamps compared as strings; they are        *)
(* numbered here in their string order: 0 is the empty string, Sentinel is *)
(* "1900-01-01", larger numbers are later upstream timestamps.             *)
(***************************************************************************)
EXTENDS Integers, Sequences, FiniteSets, TLC

\* ------------------------------------------------------------------ bounds
MaxCursor == 3
MaxTime == 2
MaxWait == 1
MaxPages == 2
MaxPageDocs == 1
MaxListLen == 5
MaxChunkSize == 2

\* ------------------------------------------------------- program constants
Sentinel == 1
StatusOK == 200

VARIABLES
    cursorFile,      \* last_sync_date.txt in cfg.StateDir
    now,             \* wall clock, in seconds
    pc,              \* position of the process
    cfg,             \* the resolved configuration the process runs with
    onetime,         \* sync's third argument: TRUE for push, FALSE for sync
    batch_date,      \* fetchAndProcessDocuments: batch_date
    document_count,  \* fetchAndProcessDocuments: document_count
    lastSyncDate,    \* fetchAndProcessDocuments: lastSyncDate
    resp,            \* the response of the last GET /fetch/document/
    upload,          \* what db.Upload returned for the last page: cnt, err
    iterErr,         \* the err fetchAndProcessDocuments returned to sync
    ret,             \* what sync returned to the command's Action
    reqSince,        \* the "since" query parameter of the last request
    pages,           \* pages requested so far in this iteration
    iterBatches,     \* the batch_date arguments of this iteration's Uploads
    cursorSource     \* the page whose cursor was last written to the file

VARIABLES
    chunkSize,       \* Snowflake.chunkSize (cfg.ChunkSize)
    doc,             \* the record nextRecord returned, as it was received
    data,            \* Upload: data, the record as the chunker mutates it
    chunks,          \* Upload: chunks
    visited,         \* the keys the range over data has produced so far
    cpc,             \* position of the chunker
    prevChunks,      \* the chunks of the previous chunking of the same record
    runs             \* how many times the record was chunked

loopVars == <<cursorFile, now, pc, cfg, onetime, batch_date, document_count,
              lastSyncDate, resp, upload, iterErr, ret, reqSince, pages,
              iterBatches, cursorSource>>

chunkVars == <<chunkSize, doc, data, chunks, visited, cpc, prevChunks, runs>>

VARIABLES
    adapter,         \* cfg.DatabaseType: which warehouses.Database Upload runs
    body,            \* the newline-terminated lines of the page body
    tail,            \* the body ends in a record that no newline follows
    lineNo,          \* reader: the next line ReadString will return
    cur,             \* Upload: the line whose record is being written
    ci,              \* Upload: i, the index of the next chunk of the record
    chunkBytes,      \* Upload: len(chunkBytes) of the chunk last marshalled
    writeFault,      \* whether the adapter's write of that chunk failed
    rows,            \* rows written to the CSV file or the transaction
    stats,           \* Upload: stats (document_count / count elsewhere)
    empty_batch,     \* Upload: empty_batch
    upc,             \* position of Upload
    result,          \* what Upload returned
    handed,          \* the lines nextRecord returned as records
    committed        \* rows the warehouse table received from this Upload

uploadVars == <<adapter, body, tail, lineNo, cur, ci, chunkBytes, writeFault,
                rows, stats, empty_batch, upc, result, handed, committed>>

VARIABLES
    table,           \* the rows of EXECUTE_DOCUMENTS, in arrival order
    clock,           \* the batch_date of the latest iteration
    uploads,         \* page uploads so far
    tableOp          \* the last operation on the table

tableVars == <<table, clock, uploads, tableOp>>

VARIABLES
    schema,          \* the schema GET /fetch/document/schema answers with
    hideInactive,    \* cfg.HideInactive
    fetched,         \* what FetchSchema returned
    views,           \* the type-specific views CreateViews has created
    baseViews,       \* the views over the table CreateViews has created, in order
    vpc              \* position of the command

viewVars == <<schema, hideInactive, fetched, views, baseViews, vpc>>

VARIABLES
    build,           \* which ResolveConfig the binary was built from
    cCtx,            \* the command line: per field, whether its flag is set
    environ,         \* the environment: per field, whether its variable is present
    config,          \* the Config ResolveConfig returned
    rcpc             \* position of ResolveConfig

configVars == <<build, cCtx, environ, config, rcpc>>

VARIABLES
    operation,       \* the adapter operation in progress
    handles,         \* database handles opened and not yet closed
    deferred,        \* defer db.Close() has been registered
    calls,           \* operations called so far
    spc              \* position of the operation

sessionVars == <<operation, handles, deferred, calls, spc>>

VARIABLES
    viewRows,        \* per list field, the rows its list-expansion view returns
    qpc              \* position of the query

queryVars == <<viewRows, qpc>>

VARIABLES
    failAt,          \* the line during whose read the connection fails, 0 for none
    readErrors       \* errors other than io.EOF nextRecord has returned

streamVars == <<failAt, readErrors>>

VARIABLES
    sizeSource,      \* the --chunk-size flag and EXECUTESYNC_CHUNK_SIZE
    keyList,         \* the list value of the key the range is at
    si,              \* the slice loop's i
    slices,          \* the slices the loop has appended to chunks
    slpc             \* position in the range body

sliceVars == <<sizeSource, keyList, si, slices, slpc>>

restVars == <<uploadVars, tableVars, viewVars, configVars, sessionVars, queryVars, streamVars, sliceVars>>

vars == <<loopVars, chunkVars, restVars>>

NoStats == [DocumentsProcessed |-> 0, ChunksWritten |-> 0,
            ChunksFailedToWrite |-> 0, LargeJSONWarnings |-> 0,
            ExtremeJSONFailures |-> 0]

NoResult == [count |-> 0, err |-> FALSE, cause |-> "none"]

UploadQuiet ==
    /\ body = << >>
    /\ tail = FALSE
    /\ lineNo = 1
    /\ cur = 0
    /\ ci = 0
    /\ chunkBytes = 0
    /\ writeFault = FALSE
    /\ rows = << >>
    /\ stats = NoStats
    /\ empty_batch = TRUE
    /\ upc = "idle"
    /\ result = NoResult
    /\ handed = << >>
    /\ committed = << >>

UploadIdle ==
    /\ adapter = "snowflake"
    /\ UploadQuiet

NoOp == [op |-> "none", type |-> "", id |-> "", version |-> 0,
         batch_date |-> 0]

TableIdle ==
    /\ table = << >>
    /\ clock = 1
    /\ uploads = 0
    /\ tableOp = NoOp

NoFields == [f \in {} |-> 0]

ViewIdle ==
    /\ schema = NoFields
    /\ hideInactive = FALSE
    /\ fetched = NoFields
    /\ views = {}
    /\ baseViews = << >>
    /\ vpc = "idle"

\* var cfg Config: every field at its zero value.
ZeroConfig == [Wait |-> 0, StateDir |-> "", Force |-> FALSE,
               DatabaseType |-> "", DatabaseDSN |-> ""]

\* No flag on the command line, or no variable in the environment.
NoSources == [Wait |-> [set |-> FALSE, val |-> 0],
              StateDir |-> [set |-> FALSE, val |-> ""],
              Force |-> [set |-> FALSE, val |-> FALSE],
              DatabaseType |-> [set |-> FALSE, val |-> ""],
              DatabaseDSN |-> [set |-> FALSE, val |-> ""]]

ConfigIdle ==
    /\ build = "defaults first"
    /\ cCtx = NoSources
    /\ environ = NoSources
    /\ config = ZeroConfig
    /\ rcpc = "idle"

SessionIdle ==
    /\ operation = "none"
    /\ handles = 0
    /\ deferred = FALSE
    /\ calls = 0
    /\ spc = "idle"

QueryIdle ==
    /\ viewRows = << >>
    /\ qpc = "idle"

StreamIdle ==
    /\ failAt = 0
    /\ readErrors = 0

SliceIdle ==
    /\ sizeSource = [flag |-> [set |-> FALSE, val |-> 0],
                     env |-> [set |-> FALSE, val |-> 0]]
    /\ keyList = << >>
    /\ si = 0
    /\ slices = << >>
    /\ slpc = "idle"

RestIdle ==
    /\ UploadIdle
    /\ TableIdle
    /\ ViewIdle
    /\ ConfigIdle
    /\ SessionIdle
    /\ QueryIdle
    /\ StreamIdle
    /\ SliceIdle

Cursors == 0..MaxCursor

\* The state file: absent, or a text that is a cursor possibly surrounded by
\* white space (date = 0 is the empty text).
FileStates ==
    {[exists |-> FALSE, date |-> 0, ws |-> FALSE]}
    \cup [exists : {TRUE}, date : Cursors, ws : BOOLEAN]

NoResp == [err |-> FALSE, status |-> 0, mark |-> 0, truncated |-> "", docs |-> 0]
NoUpload == [called |-> FALSE, cnt |-> 0, err |-> FALSE]
NoSource == [page |-> FALSE, mark |-> 0, accepted |-> FALSE]

Configs == [Force : BOOLEAN, Wait : 0..MaxWait]

\* strings.TrimSpace on the file's text: the surrounding white space goes,
\* the cursor stays.
TrimSpace(f) == f.date

loadLastSyncDate(f) == IF ~f.exists THEN 0 ELSE TrimSpace(f)

saveLastSyncDate(date) == [exists |-> TRUE, date |-> date, ws |-> FALSE]

\* strings.ToUpper on the values the X-Sync-Truncated header takes here.
ToUpper(s) ==
    CASE s = "false" -> "FALSE"
      [] s = "False" -> "FALSE"
      [] s = "true" -> "TRUE"
      [] OTHER -> s

TruncatedHeaders == {"false", "False", "true", ""}

\* Mutant: the stored cursor is ignored, every iteration starts at the sentinel.
StartCursorIgnoresFile(c, f) == Sentinel

\* Mutant: the force flag is ignored.
StartCursorNoForce(c, f) ==
    IF loadLastSyncDate(f) = 0 THEN Sentinel ELSE loadLastSyncDate(f)

\* The cursor the iteration starts from.
StartCursor(c, f) ==
    IF c.Force \/ loadLastSyncDate(f) = 0 THEN Sentinel ELSE loadLastSyncDate(f)

\* ---------------------------------------------------------------- upstream
\* A response of GET /fetch/document/?since=s: an error of the request
\* (it could not be built or performed), or a status with the
\* X-Sync-Highwater-Mark and X-Sync-Truncated headers and a body of docs
\* valid records. The upstream reports a high-water mark that is not
\* earlier than the since it was asked for.
Responses(since) ==
    [err : {TRUE}, status : {0}, mark : {0}, truncated : {""}, docs : {0}]
    \cup [err : {FALSE}, status : {500}, mark : {0}, truncated : {""}, docs : {0}]
    \cup [err : {FALSE}, status : {StatusOK}, mark : since..MaxCursor,
          truncated : TruncatedHeaders, docs : 0..MaxPageDocs]

\* ----------------------------------------------------------------- adapter
\* Snowflake.Upload at the level of a page: where it can fail, and what it
\* returns. The faults are the error returns of the function, in its order.
UploadFaults ==
    {"none", "open", "bootstrap", "tempfile", "header", "flush", "put", "pipe"}

Upload(docs, fault) ==
    IF fault \in {"open", "bootstrap", "tempfile", "header", "flush"}
    THEN [called |-> TRUE, cnt |-> 0, err |-> TRUE]
    ELSE IF docs = 0
    THEN [called |-> TRUE, cnt |-> 0, err |-> FALSE]   \* empty batch: nothing is staged
    ELSE IF fault \in {"put", "pipe"}
    THEN [called |-> TRUE, cnt |-> 0, err |-> TRUE]
    ELSE [called |-> TRUE, cnt |-> docs, err |-> FALSE]

\* ------------------------------------------------------- replication loop
\* sync: top of the for loop, the call of fetchAndProcessDocuments up to its
\* own for loop (batch_date, document_count, lastSyncDate). A file that is
\* there and cannot be read ends the process (log.Fatalf).
BeginIteration ==
    /\ pc = "sync"
    /\ batch_date' = now
    /\ document_count' = 0
    /\ resp' = NoResp
    /\ upload' = NoUpload
    /\ iterErr' = FALSE
    /\ pages' = 0
    /\ iterBatches' = {}
    /\ \/ /\ lastSyncDate' = StartCursor(cfg, cursorFile)
          /\ pc' = "fetch"
       \/ /\ cursorFile.exists
          /\ lastSyncDate' = lastSyncDate
          /\ pc' = "killed"
    /\ UNCHANGED <<cursorFile, now, cfg, onetime, ret, reqSince, cursorSource>>
    /\ UNCHANGED <<chunkVars, restVars>>

\* Mutant: the status code is not checked.
FetchFailedTransportOnly(r) == r.err

\* What fetchAndProcessDocuments does with the response: TRUE when it
\* returns 0, err.
FetchFailed(r) == r.err \/ r.status # StatusOK

\* The request of one page and the check of its status.
FetchPage ==
    /\ pc = "fetch"
    /\ pages < MaxPages
    /\ \E r \in Responses(lastSyncDate) :
        /\ resp' = r
        /\ reqSince' = lastSyncDate
        /\ pages' = pages + 1
        /\ IF FetchFailed(r)
           THEN /\ iterErr' = TRUE
                /\ document_count' = 0
                /\ pc' = "iter_end"
           ELSE /\ pc' = "upload"
                /\ UNCHANGED <<iterErr, document_count>>
    /\ upload' = NoUpload
    /\ UNCHANGED <<cursorFile, now, cfg, onetime, batch_date, lastSyncDate,
                   ret, iterBatches, cursorSource>>
    /\ UNCHANGED <<chunkVars, restVars>>

\* Mutant: a batch_date taken for every page.
UploadBatchDateNow == now

\* The batch_date argument of db.Upload.
UploadBatchDate == batch_date

\* Mutant: Upload's err is not checked.
UploadAbortsNever(u) == FALSE

\* The check of Upload's err: TRUE when fetchAndProcessDocuments returns 0, err.
UploadAborts(u) == u.err

\* cnt, err := db.Upload(batch_date, nextRecord) and the check of err.
UploadPage ==
    /\ pc = "upload"
    /\ \E fault \in UploadFaults :
        LET u == Upload(resp.docs, fault) IN
        /\ upload' = u
        /\ iterBatches' = iterBatches \cup {UploadBatchDate}
        /\ IF UploadAborts(u)
           THEN /\ iterErr' = TRUE
                /\ document_count' = 0
                /\ pc' = "iter_end"
           ELSE /\ document_count' = document_count + u.cnt
                /\ pc' = "save"
                /\ UNCHANGED iterErr
    /\ UNCHANGED <<cursorFile, now, cfg, onetime, batch_date, lastSyncDate,
                   resp, ret, reqSince, pages, cursorSource>>
    /\ UNCHANGED <<chunkVars, restVars>>

\* The cursor that is stored after a page.
NewCursor(r) == r.mark

\* lastSyncDate = resp.Header.Get("X-Sync-Highwater-Mark"); saveLastSyncDate.
\* os.WriteFile is taken as one step; a failed write ends the process
\* (log.Fatalf) with the file as it was.
AdvanceCursor ==
    /\ pc = "save"
    /\ lastSyncDate' = NewCursor(resp)
    /\ \/ /\ cursorFile' = saveLastSyncDate(NewCursor(resp))
          /\ cursorSource' = [page |-> TRUE, mark |-> resp.mark,
                              accepted |-> upload.called /\ ~upload.err]
          /\ pc' = "check"
       \/ /\ UNCHANGED <<cursorFile, cursorSource>>
          /\ pc' = "killed"
    /\ UNCHANGED <<now, cfg, onetime, batch_date, document_count, resp, upload,
                   iterErr, ret, reqSince, pages, iterBatches>>
    /\ UNCHANGED <<chunkVars, restVars>>

\* Mutant: the header is compared without strings.ToUpper.
CompleteExactCase(r) == r.truncated = "FALSE"

\* The test that ends the for loop of fetchAndProcessDocuments.
Complete(r) == ToUpper(r.truncated) = "FALSE"

CheckTruncation ==
    /\ pc = "check"
    /\ pc' = IF Complete(resp) THEN "iter_end" ELSE "fetch"
    /\ UNCHANGED <<cursorFile, now, cfg, onetime, batch_date, document_count,
                   lastSyncDate, resp, upload, iterErr, ret, reqSince, pages,
                   iterBatches, cursorSource>>
    /\ UNCHANGED <<chunkVars, restVars>>

\* sync's break test.
Breaks(c, once) == c.Wait = 0 \/ once

\* What sync returns after its loop.
SyncResult(failed) == "nil"

\* sync after fetchAndProcessDocuments returned: the log line, the break test
\* and, after a break, the return.
EndIteration ==
    /\ pc = "iter_end"
    /\ IF Breaks(cfg, onetime)
       THEN /\ pc' = "exited"
            /\ ret' = SyncResult(iterErr)
       ELSE /\ pc' = "sleep"
            /\ UNCHANGED ret
    /\ UNCHANGED <<cursorFile, now, cfg, onetime, batch_date, document_count,
                   lastSyncDate, resp, upload, iterErr, reqSince, pages,
                   iterBatches, cursorSource>>
    /\ UNCHANGED <<chunkVars, restVars>>

\* time.Sleep(cfg.Wait seconds), then the next turn of sync's loop.
Sleep ==
    /\ pc = "sleep"
    /\ now + cfg.Wait <= MaxTime
    /\ now' = now + cfg.Wait
    /\ pc' = "sync"
    /\ UNCHANGED <<cursorFile, cfg, onetime, batch_date, document_count,
                   lastSyncDate, resp, upload, iterErr, ret, reqSince, pages,
                   iterBatches, cursorSource>>
    /\ UNCHANGED <<chunkVars, restVars>>

\* ------------------------------------------------------------ environment
Live == pc \notin {"exited", "killed"}

\* The process is killed, at any point.
Crash ==
    /\ Live
    /\ pc' = "killed"
    /\ UNCHANGED <<cursorFile, now, cfg, onetime, batch_date, document_count,
                   lastSyncDate, resp, upload, iterErr, ret, reqSince, pages,
                   iterBatches, cursorSource>>
    /\ UNCHANGED <<chunkVars, restVars>>

\* The sync or push command is started again: a new process, the same file.
Restart ==
    /\ ~Live
    /\ \E c \in Configs, once \in BOOLEAN :
        /\ cfg' = c
        /\ onetime' = once
    /\ pc' = "sync"
    /\ batch_date' = 0
    /\ document_count' = 0
    /\ lastSyncDate' = 0
    /\ resp' = NoResp
    /\ upload' = NoUpload
    /\ iterErr' = FALSE
    /\ ret' = "pending"
    /\ reqSince' = 0
    /\ pages' = 0
    /\ iterBatches' = {}
    /\ UNCHANGED <<cursorFile, now, cursorSource>>
    /\ UNCHANGED <<chunkVars, restVars>>

\* Time passes.
Tick ==
    /\ now < MaxTime
    /\ now' = now + 1
    /\ UNCHANGED <<cursorFile, pc, cfg, onetime, batch_date, document_count,
                   lastSyncDate, resp, upload, iterErr, ret, reqSince, pages,
                   iterBatches, cursorSource>>
    /\ UNCHANGED <<chunkVars, restVars>>

ChunkIdle ==
    /\ chunkSize = 1
    /\ doc = << >>
    /\ data = << >>
    /\ chunks = << >>
    /\ visited = {}
    /\ cpc = "idle"
    /\ prevChunks = << >>
    /\ runs = 0

Init ==
    /\ cursorFile \in FileStates
    /\ now = 0
    /\ pc = "sync"
    /\ cfg \in Configs
    /\ onetime \in BOOLEAN
    /\ batch_date = 0
    /\ document_count = 0
    /\ lastSyncDate = 0
    /\ resp = NoResp
    /\ upload = NoUpload
    /\ iterErr = FALSE
    /\ ret = "pending"
    /\ reqSince = 0
    /\ pages = 0
    /\ iterBatches = {}
    /\ cursorSource = NoSource
    /\ ChunkIdle
    /\ RestIdle

Next ==
    \/ BeginIteration
    \/ FetchPage
    \/ UploadPage
    \/ AdvanceCursor
    \/ CheckTruncation
    \/ EndIteration
    \/ Sleep
    \/ Crash
    \/ Restart
    \/ Tick

Spec == Init /\ [][Next]_vars

\* ================================================================= chunker
\* A record is a map from its top-level keys to values. A value is a list
\* ([]interface{}), a scalar or a nested map; the items of a list are
\* numbered by their position, a scalar is told from the others by a number,
\* and a nested map carries a list of its own, one level down.
EnvelopeFields ==
    {"$TYPE", "DOCUMENT_ID", "$VERSION", "$AUTHOR_ID", "$DATE", "$DELETED"}

DataFields == {"A", "B"}

Items(n) == [i \in 1..n |-> i]

ListValue(items) == [kind |-> "list", items |-> items]

Scalar(v) == [kind |-> "scalar", items |-> <<v>>]

\* The values of the envelope fields and of a data field that is a scalar:
\* one value per field, all different.
FieldValue(k) ==
    CASE k = "$TYPE" -> Scalar(101)
      [] k = "DOCUMENT_ID" -> Scalar(102)
      [] k = "$VERSION" -> Scalar(103)
      [] k = "$AUTHOR_ID" -> Scalar(104)
      [] k = "$DATE" -> Scalar(105)
      [] k = "$DELETED" -> Scalar(106)
      [] OTHER -> Scalar(107)

DataValues ==
    {ListValue(Items(n)) : n \in 0..MaxListLen}
    \cup {FieldValue("A"), [kind |-> "map", items |-> Items(MaxListLen)]}

\* The records nextRecord hands to Upload that pass validateRequiredFields.
Records ==
    {[k \in EnvelopeFields \cup DataFields |->
         IF k \in EnvelopeFields THEN FieldValue(k) ELSE f[k]] :
       f \in [DataFields -> DataValues]}

\* value.([]interface{}): the type assertion of the range body.
IsList(value) == value.kind = "list"

\* Mutant: a list of exactly chunkSize items is chunked too.
OversizedAtLeast(list, c) == Len(list) >= c

\* len(list) > s.chunkSize
Oversized(list, c) == Len(list) > c

\* Mutant: a full slice loses its last item.
SliceEndShort(i, c, n) == IF i + c > n THEN n ELSE i + c - 1

\* end := i + s.chunkSize; if end > len(list) { end = len(list) }
SliceEnd(i, c, n) == IF i + c > n THEN n ELSE i + c

\* The for loop over i: the synthetic records of one list, from index i on.
\* list[i:end] is SubSeq(list, i + 1, end).
RECURSIVE SliceRecords(_, _, _, _, _)
SliceRecords(id, key, list, i, c) ==
    IF i >= Len(list)
    THEN << >>
    ELSE <<[k \in {"DOCUMENT_ID", key} |->
              IF k = key
              THEN ListValue(SubSeq(list, i + 1, SliceEnd(i, c, Len(list))))
              ELSE id]>>
         \o SliceRecords(id, key, list, i + c, c)

\* delete(data, key)
Delete(d, key) == [k \in (DOMAIN d) \ {key} |-> d[k]]

\* One turn of the range over data: the range yields a key it has not yet
\* yielded, in no specified order.
RangeStep ==
    /\ cpc = "range"
    /\ \E key \in (DOMAIN data) \ visited :
        /\ visited' = visited \cup {key}
        /\ IF IsList(data[key]) /\ Oversized(data[key].items, chunkSize)
           THEN /\ chunks' = chunks \o SliceRecords(data["DOCUMENT_ID"], key,
                                                   data[key].items, 0, chunkSize)
                /\ data' = Delete(data, key)
           ELSE UNCHANGED <<chunks, data>>
    /\ UNCHANGED <<chunkSize, doc, cpc, prevChunks, runs>>
    /\ UNCHANGED <<loopVars, restVars>>

\* chunks = append([]map[string]interface{}{data}, chunks...), after the range.
Assemble ==
    /\ cpc = "range"
    /\ (DOMAIN data) \ visited = {}
    /\ chunks' = <<data>> \o chunks
    /\ cpc' = "done"
    /\ UNCHANGED <<chunkSize, doc, data, visited, prevChunks, runs>>
    /\ UNCHANGED <<loopVars, restVars>>

\* The same record arrives again (a later page or iteration) and is chunked
\* again with the same chunkSize.
Rechunk ==
    /\ cpc = "done"
    /\ runs = 1
    /\ prevChunks' = chunks
    /\ runs' = 2
    /\ data' = doc
    /\ chunks' = << >>
    /\ visited' = {}
    /\ cpc' = "range"
    /\ UNCHANGED <<chunkSize, doc>>
    /\ UNCHANGED <<loopVars, restVars>>

LoopIdle ==
    /\ cursorFile = [exists |-> FALSE, date |-> 0, ws |-> FALSE]
    /\ now = 0
    /\ pc = "upload"
    /\ cfg = [Force |-> FALSE, Wait |-> 0]
    /\ onetime = TRUE
    /\ batch_date = 0
    /\ document_count = 0
    /\ lastSyncDate = Sentinel
    /\ resp = NoResp
    /\ upload = NoUpload
    /\ iterErr = FALSE
    /\ ret = "pending"
    /\ reqSince = Sentinel
    /\ pages = 1
    /\ iterBatches = {}
    /\ cursorSource = NoSource

\* Upload has a valid record in hand and is about to chunk it.
ChunkInit ==
    /\ chunkSize \in 1..MaxChunkSize
    /\ doc \in Records
    /\ data = doc
    /\ chunks = << >>
    /\ visited = {}
    /\ cpc = "range"
    /\ prevChunks = << >>
    /\ runs = 1
    /\ LoopIdle
    /\ RestIdle

ChunkNext ==
    \/ RangeStep
    \/ Assemble
    \/ Rechunk

SpecChunk == ChunkInit /\ [][ChunkNext]_vars

\* ================================================================== upload
\* Upload of one page, record by record, for each warehouses.Database.  The
\* chunker above decides how many chunks a record has; here a record carries
\* that number, and the serialized size of each chunk and the outcome of the
\* adapter's write are drawn when the chunk is reached.
MaxLines == 2

ChunkCounts == {1, 2}

WarningJSONSize == 8 * 1024 * 1024
ExtremeJSONSize == 15 * 1024 * 1024

\* len(chunkBytes): the two thresholds and the byte below each.
ChunkSizes == {WarningJSONSize - 1, WarningJSONSize,
               ExtremeJSONSize - 1, ExtremeJSONSize}

Adapters == {"snowflake", "sqlite", "sqlserver", "databricks"}

notUploadVars == <<loopVars, chunkVars, tableVars, viewVars, configVars,
                   sessionVars, queryVars, streamVars, sliceVars>>

\* A line of the body: json says whether json.Unmarshal accepts it as an
\* object; field and how name the envelope field that is absent or null, if
\* any; n is the number of chunks the chunker makes of the record.
GarbageLine == [json |-> FALSE, field |-> "none", how |-> "ok", n |-> 1]

DefectLines == {[json |-> TRUE, field |-> f, how |-> h, n |-> 1] :
                   f \in EnvelopeFields, h \in {"missing", "null"}}

ValidLines == {[json |-> TRUE, field |-> "none", how |-> "ok", n |-> n] :
                  n \in ChunkCounts}

Lines == {GarbageLine} \cup DefectLines \cup ValidLines

Bodies == UNION {[1..k -> Lines] : k \in 0..MaxLines}

\* The envelope of the record json.Unmarshal makes of a line: a missing key
\* is outside the map, a JSON null is a nil interface value.
RecordOf(line) ==
    [f \in EnvelopeFields \ (IF line.how = "missing" THEN {line.field} ELSE {})
        |-> IF line.how = "null" /\ f = line.field THEN "nil" ELSE "value"]

\* TRUE when validateRequiredFields returns nil.
validateRequiredFields(d) ==
    \A field \in EnvelopeFields : field \in DOMAIN d /\ d[field] # "nil"

\* data["$TYPE"].(string) and the like: a type assertion on the nil interface
\* value (key absent, or JSON null) panics.
TypeAssertionPanics(d) ==
    \E field \in EnvelopeFields : field \notin DOMAIN d \/ d[field] = "nil"

\* TRUE when validateJSONSize returns an error.
validateJSONSize(size) == size >= ExtremeJSONSize

\* Upload: the test that counts a LargeJSONWarning.
LargeJSON(size) == size >= WarningJSONSize

\* Which Upload calls validateRequiredFields / validateJSONSize.
Validates(a) == a = "snowflake"

nextRecordParseErrorEnds(b, n) ==
    IF n > Len(b) \/ ~b[n].json THEN [data |-> 0, err |-> "EOF"]
    ELSE [data |-> n, err |-> "nil"]

\* nextRecord: data is the line number of the record returned, 0 for nil.
\* ReadString returns io.EOF at the end of the body, also when bytes without
\* a final newline remain: those bytes are dropped.
nextRecord(b, n) ==
    IF n > Len(b) THEN [data |-> 0, err |-> "EOF"]
    ELSE IF ~b[n].json THEN [data |-> 0, err |-> "nil"]
    ELSE [data |-> n, err |-> "nil"]

\* What the body of the chunk loop does with one chunk.
ChunkOutcome(a, d, size, fault) ==
    IF a = "snowflake"
    THEN IF validateJSONSize(size) THEN "rejected"
         ELSE IF fault THEN "failed" ELSE "written"
    ELSE IF TypeAssertionPanics(d) THEN "panic"
    ELSE IF ~fault THEN "written"
    ELSE IF a = "sqlserver" THEN "abort" ELSE "skipped"

\* The counters Upload moves for one chunk; only Snowflake keeps any.
ChunkStats(a, st, size, o) ==
    IF a # "snowflake" THEN st
    ELSE IF o = "rejected"
         THEN [st EXCEPT !.ExtremeJSONFailures = @ + 1]
    ELSE LET w == IF LargeJSON(size)
                  THEN [st EXCEPT !.LargeJSONWarnings = @ + 1] ELSE st
         IN IF o = "failed"
            THEN [w EXCEPT !.ChunksFailedToWrite = @ + 1]
            ELSE [w EXCEPT !.ChunksWritten = @ + 1]

OpenFaults == {"none", "open", "bootstrap"}

\* sql.Open, bootstrap, Begin/Prepare or the temporary file: before any record.
OpenUpload ==
    /\ upc = "open"
    /\ \E f \in OpenFaults :
          IF f = "none"
          THEN upc' = "read" /\ UNCHANGED result
          ELSE /\ upc' = "returned"
               /\ result' = [count |-> 0, err |-> TRUE, cause |-> f]
    /\ UNCHANGED <<adapter, body, tail, lineNo, cur, ci, chunkBytes,
                   writeFault, rows, stats, empty_batch, handed, committed>>
    /\ UNCHANGED notUploadVars

\* The head of the record loop: nextRecord, the EOF test, the nil test and,
\* where the adapter has one, the validation of the envelope.
ReadRecord ==
    /\ upc = "read"
    /\ LET r == nextRecord(body, lineNo) IN
          IF r.err = "EOF"
          THEN /\ upc' = "finish"
               /\ UNCHANGED <<lineNo, cur, ci, handed>>
          ELSE /\ lineNo' = lineNo + 1
               /\ IF r.data = 0
                  THEN UNCHANGED <<upc, cur, ci, handed>>
                  ELSE /\ handed' = Append(handed, r.data)
                       /\ IF /\ Validates(adapter)
                             /\ ~validateRequiredFields(RecordOf(body[r.data]))
                          THEN UNCHANGED <<upc, cur, ci>>
                          ELSE /\ cur' = r.data
                               /\ ci' = 0
                               /\ upc' = "chunks"
    /\ UNCHANGED <<adapter, body, tail, chunkBytes, writeFault, rows, stats,
                   empty_batch, result, committed>>
    /\ UNCHANGED notUploadVars

\* One pass of the chunk loop: marshal, size policy, write.
WriteChunk ==
    /\ upc = "chunks"
    /\ ci < body[cur].n
    /\ \E size \in ChunkSizes, fault \in BOOLEAN :
          LET o == ChunkOutcome(adapter, RecordOf(body[cur]), size, fault) IN
          /\ chunkBytes' = size
          /\ writeFault' = fault
          /\ stats' = ChunkStats(adapter, stats, size, o)
          /\ rows' = IF o = "written"
                     THEN Append(rows, [line |-> cur, chunk |-> ci])
                     ELSE IF o \in {"abort", "panic"} THEN << >> ELSE rows
          /\ upc' = IF o = "panic" THEN "panicked"
                    ELSE IF o = "abort" THEN "returned" ELSE "chunks"
          /\ ci' = IF o \in {"abort", "panic"} THEN ci ELSE ci + 1
          /\ result' = IF o = "abort"
                       THEN [count |-> stats.DocumentsProcessed,
                             err |-> TRUE, cause |-> "write"]
                       ELSE result
    /\ UNCHANGED <<adapter, body, tail, lineNo, cur, empty_batch, handed,
                   committed>>
    /\ UNCHANGED notUploadVars

\* After the last chunk of a record: the document is counted.
EndDocument ==
    /\ upc = "chunks"
    /\ ci = body[cur].n
    /\ stats' = [stats EXCEPT !.DocumentsProcessed = @ + 1]
    /\ empty_batch' = FALSE
    /\ upc' = "read"
    /\ UNCHANGED <<adapter, body, tail, lineNo, cur, ci, chunkBytes,
                   writeFault, rows, result, handed, committed>>
    /\ UNCHANGED notUploadVars

\* What can fail after the record loop, per adapter.
FinishFaults(a) ==
    IF a = "snowflake" THEN {"none", "flush", "put", "pipe"}
    ELSE IF a = "databricks" THEN {"none", "flush", "dbfs", "copy"}
    ELSE {"none", "commit"}

\* Upload's return value after the record loop.  Snowflake and Databricks
\* skip the load of an empty batch; SQL Server returns count with the error.
FinishResult(a, n, empty, f) ==
    IF f = "none" \/ (empty /\ f \in {"put", "pipe", "dbfs", "copy"})
    THEN [count |-> n, err |-> FALSE, cause |-> "none"]
    ELSE [count |-> IF a = "sqlserver" THEN n ELSE 0, err |-> TRUE,
          cause |-> f]

Finish ==
    /\ upc = "finish"
    /\ \E f \in FinishFaults(adapter) :
          LET res == FinishResult(adapter, stats.DocumentsProcessed,
                                  empty_batch, f) IN
          /\ result' = res
          /\ committed' = IF res.err THEN << >> ELSE rows
    /\ upc' = "returned"
    /\ UNCHANGED <<adapter, body, tail, lineNo, cur, ci, chunkBytes,
                   writeFault, rows, stats, empty_batch, handed>>
    /\ UNCHANGED notUploadVars

UploadInit ==
    /\ adapter \in Adapters
    /\ body \in Bodies
    /\ tail \in BOOLEAN
    /\ lineNo = 1
    /\ cur = 0
    /\ ci = 0
    /\ chunkBytes = 0
    /\ writeFault = FALSE
    /\ rows = << >>
    /\ stats = NoStats
    /\ empty_batch = TRUE
    /\ upc = "open"
    /\ result = NoResult
    /\ handed = << >>
    /\ committed = << >>
    /\ LoopIdle
    /\ ChunkIdle
    /\ TableIdle
    /\ ViewIdle
    /\ ConfigIdle
    /\ SessionIdle
    /\ QueryIdle
    /\ StreamIdle
    /\ SliceIdle

UploadNext ==
    \/ OpenUpload
    \/ ReadRecord
    \/ WriteChunk
    \/ EndDocument
    \/ Finish

SpecUpload == UploadInit /\ [][UploadNext]_vars

\* =================================================================== table
\* The warehouse table under page uploads and Prune, and the two views
\* CreateViews defines over it.  A page upload here carries one document
\* version; the rows of an Upload that returned nil are in the table when the
\* next operation starts.
MaxBatch == 2
MaxUploads == 3

DocKeys == {[type |-> "WELL", id |-> "d1"], [type |-> "AFE", id |-> "d1"]}

Versions == {1, 2}

notTableVars == <<loopVars, chunkVars, body, tail, lineNo, cur, ci,
                  chunkBytes, writeFault, rows, stats, empty_batch, upc,
                  result, handed, committed, viewVars, configVars,
                  sessionVars, queryVars, streamVars, sliceVars>>

\* The rows Upload writes for a document version of n chunks.
DocRows(b, k, v, n) ==
    [c \in 1..n |-> [batch_date |-> b, type |-> k.type, id |-> k.id,
                     version |-> v, chunk |-> c - 1]]

RowSet(t) == {t[i] : i \in 1..Len(t)}

Max(S) == CHOOSE x \in S : \A y \in S : y <= x

\* primary key (BATCH_DATE, TYPE, ID, VERSION, CHUNK)
SameKey(r, q) ==
    /\ r.batch_date = q.batch_date
    /\ r.type = q.type
    /\ r.id = q.id
    /\ r.version = q.version
    /\ r.chunk = q.chunk

\* SELECT TYPE, ID, VERSION, MAX(BATCH_DATE) FROM t GROUP BY TYPE, ID, VERSION
MaxBatchByVersionOldest(t) ==
    {<<r.type, r.id, r.version,
       CHOOSE x \in {q.batch_date : q \in {q \in RowSet(t) :
                           q.type = r.type /\ q.id = r.id
                           /\ q.version = r.version}} :
          \A q \in RowSet(t) : (q.type = r.type /\ q.id = r.id
                               /\ q.version = r.version) => x <= q.batch_date>> :
        r \in RowSet(t)}

MaxBatchByVersion(t) ==
    {<<r.type, r.id, r.version,
       Max({q.batch_date : q \in {q \in RowSet(t) :
                           q.type = r.type /\ q.id = r.id
                           /\ q.version = r.version}})>> : r \in RowSet(t)}

\* SELECT TYPE, ID, MAX(VERSION) FROM t GROUP BY TYPE, ID
MaxVersionByDoc(t) ==
    {<<r.type, r.id,
       Max({q.version : q \in {q \in RowSet(t) :
                           q.type = r.type /\ q.id = r.id}})>> :
        r \in RowSet(t)}

\* CreateViews: EXECUTE_DOCUMENTS_LATEST_ALL_VERSIONS
LATEST_ALL_VERSIONS(t) ==
    SelectSeq(t, LAMBDA r : <<r.type, r.id, r.version, r.batch_date>>
                                \in MaxBatchByVersion(t))

\* CreateViews: EXECUTE_DOCUMENTS_LATEST
LATEST(t) ==
    SelectSeq(LATEST_ALL_VERSIONS(t),
              LAMBDA r : <<r.type, r.id, r.version>> \in MaxVersionByDoc(t))

\* The WHERE clause of Prune's DELETE, per adapter.
PruneDeletesByDocument(a, r, t) ==
    \E q \in RowSet(t) : /\ q.type = r.type
                         /\ q.id = r.id
                         /\ q.batch_date > r.batch_date

PruneDeletes(a, r, t) ==
    IF a = "databricks"
    THEN \E latest \in MaxBatchByVersion(t) :
            /\ r.type = latest[1]
            /\ r.id = latest[2]
            /\ r.version = latest[3]
            /\ r.batch_date < latest[4]
    ELSE IF a = "sqlserver"
    THEN ~\E t2 \in RowSet(t) :
            /\ r.type = t2.type
            /\ r.id = t2.id
            /\ r.version = t2.version
            /\ r.batch_date =
                  Max({t3.batch_date : t3 \in {t3 \in RowSet(t) :
                          t3.type = t2.type /\ t3.id = t2.id
                          /\ t3.version = t2.version}})
    ELSE <<r.type, r.id, r.version, r.batch_date>> \notin MaxBatchByVersion(t)

\* How the rows of an Upload reach the table.  SQLite: INSERT OR REPLACE under
\* the primary key.  SQL Server: INSERT under the primary key, a duplicate
\* key fails the statement and Upload rolls back.  Snowflake (COPY INTO
\* through the pipe; the declared primary key is not enforced) and Databricks
\* (COPY INTO a table without a key) append.
Insert(a, t, R) ==
    IF a = "sqlite"
    THEN SelectSeq(t, LAMBDA q : \A i \in 1..Len(R) : ~SameKey(R[i], q)) \o R
    ELSE IF a = "sqlserver"
    THEN IF \E i \in 1..Len(R) : \E q \in RowSet(t) : SameKey(R[i], q)
         THEN t ELSE t \o R
    ELSE t \o R

\* One page of the iteration whose batch_date is b, holding version v of
\* document k in n chunks.  A later iteration has a batch_date that is not
\* earlier (time.Now at one-second resolution).
UploadDoc ==
    /\ uploads < MaxUploads
    /\ \E b \in clock..MaxBatch, k \in DocKeys, v \in Versions,
          n \in ChunkCounts :
          /\ table' = Insert(adapter, table, DocRows(b, k, v, n))
          /\ clock' = b
          /\ tableOp' = [op |-> "upload", type |-> k.type, id |-> k.id,
                         version |-> v, batch_date |-> b]
    /\ uploads' = uploads + 1
    /\ UNCHANGED adapter
    /\ UNCHANGED notTableVars

\* Prune: the DELETE statement, or an error before it.
PruneTable ==
    /\ \E ok \in BOOLEAN :
          IF ok
          THEN /\ table' = SelectSeq(table, LAMBDA r :
                                        ~PruneDeletes(adapter, r, table))
               /\ tableOp' = [NoOp EXCEPT !.op = "prune"]
          ELSE /\ table' = table
               /\ tableOp' = [NoOp EXCEPT !.op = "prune failed"]
    /\ UNCHANGED <<adapter, clock, uploads>>
    /\ UNCHANGED notTableVars

TableInit ==
    /\ adapter \in Adapters
    /\ TableIdle
    /\ UploadQuiet
    /\ LoopIdle
    /\ ChunkIdle
    /\ ViewIdle
    /\ ConfigIdle
    /\ SessionIdle
    /\ QueryIdle
    /\ StreamIdle
    /\ SliceIdle

TableNext ==
    \/ UploadDoc
    \/ PruneTable

SpecTable == TableInit /\ [][TableNext]_vars

\* =================================================================== views
\* FetchSchema and the view compiler (CreateViews / create_view).  A schema
\* is a map from field names to FieldMetadata; Type, Active and RecordType
\* are the members the compiler and the filter read.  A view is recorded by
\* its name (the path of field names under the document type), the synthetic
\* columns, the columns made from fields, and the path of the list it
\* flattens (empty when it flattens none).
MaxDepth == 3

DocType == "WELL"

SchemaFields == {"NAME", "CHILD"}

ScalarTypes == {"TEXT", "GUID", "UWI", "INTEGER", "DECIMAL", "BOOLEAN",
                "DATETIME"}

notViewVars == <<loopVars, chunkVars, body, tail, lineNo, cur, ci,
                 chunkBytes, writeFault, rows, stats, empty_batch, upc,
                 result, handed, committed, tableVars, configVars,
                 sessionVars, queryVars, streamVars, sliceVars>>

TextField(a) == [Type |-> "TEXT", Active |-> a, RecordType |-> NoFields]

MakeSchema(D, nm, cm) == [f \in D |-> IF f = "NAME" THEN nm ELSE cm]

\* The schemas nested at most d deep: NAME is a TEXT field, CHILD a RECORD or
\* a RECORD LIST, each active or not, each present or not.
RECURSIVE Schemas(_)
Schemas(d) ==
    LET names == {TextField(a) : a \in BOOLEAN}
        kids == IF d = 0 THEN {}
                ELSE {[Type |-> t, Active |-> a, RecordType |-> s] :
                         t \in {"RECORD", "RECORD LIST"}, a \in BOOLEAN,
                         s \in Schemas(d - 1)}
    IN {NoFields}
       \cup {MakeSchema({"NAME"}, n, n) : n \in names}
       \cup {MakeSchema({"CHILD"}, c, c) : c \in kids}
       \cup {MakeSchema({"NAME", "CHILD"}, n, c) : n \in names, c \in kids}

\* filterDocumentSchema / filterInactiveDocumentFields
filterDocumentSchemaShallow(s) ==
    [f \in {g \in DOMAIN s : s[g].Active} |-> s[f]]

RECURSIVE filterDocumentSchema(_)
filterDocumentSchema(s) ==
    [f \in {g \in DOMAIN s : s[g].Active} |->
        [s[f] EXCEPT !.RecordType = filterDocumentSchema(s[f].RecordType)]]

\* FetchSchema: the parsed schema, filtered when cfg.HideInactive is set.
FetchSchema(hide, s) == IF hide THEN filterDocumentSchema(s) ELSE s

\* create_view's test for the synthetic LISTITEM_ID column.
ListItemColumn(a, dataField, root, flatten) ==
    IF a = "sqlserver" THEN dataField = "value"
    ELSE IF a = "sqlite" THEN flatten # << >> /\ root # << >>
    ELSE dataField = "value" /\ root # << >>

\* create_view's "Don't support LIST in LIST" test: the view being compiled
\* does not read the document's data column (root without the prefix "data",
\* jsonField other than DATA, dataField "value").
ListInListNever(dataField) == FALSE

ListInList(dataField) == dataField # "data"

\* create_view appends "and chunk=0" to the view's WHERE clause.
ChunkZeroOnlyAlways(flatten) == TRUE

ChunkZeroOnly(flatten) == flatten = << >>

\* The fields create_view's loop does not skip.
LoopFields(a, record) ==
    DOMAIN record \ (IF a = "sqlserver" THEN {"DOCUMENT_ID", "LISTITEM_ID"}
                     ELSE {"DOCUMENT_ID"})

\* create_view: the views created for tableName and below.  dataField is the
\* column the view's JSON paths start from, root the path below it.  Every
\* view selects from <table>_LATEST where type is docType, the first element
\* of tableName.
RECURSIVE create_view(_, _, _, _, _, _, _)
create_view(a, tableName, parentTable, record, dataField, root, flatten) ==
    LET fields == LoopFields(a, record)
        this == [name |-> tableName,
                 synthetic |->
                    {"DOCUMENT_ID"}
                    \cup (IF ListItemColumn(a, dataField, root, flatten)
                          THEN {"LISTITEM_ID"} ELSE {})
                    \cup (IF parentTable = << >>
                          THEN {"_DELETED", "_AUTHOR", "_VERSION", "_DATE"}
                          ELSE {}),
                 columns |-> {f \in fields :
                                 record[f].Type \in ScalarTypes \cup {"DOCUMENT"}},
                 flatten |-> flatten,
                 from |-> "LATEST",
                 type |-> Head(tableName),
                 chunk0 |-> ChunkZeroOnly(flatten)]
        below(f) ==
            IF record[f].Type = "RECORD"
            THEN create_view(a, Append(tableName, f), tableName,
                             record[f].RecordType, dataField,
                             Append(root, f), flatten)
            ELSE IF record[f].Type = "RECORD LIST"
            THEN IF ListInList(dataField) THEN {}
                 ELSE create_view(a, Append(tableName, f), tableName,
                                  record[f].RecordType, "value", << >>,
                                  Append(root, f))
            ELSE {}
    IN {this} \cup UNION {below(f) : f \in fields}

\* FetchSchema answers.
FetchSchemaStep ==
    /\ vpc = "start"
    /\ fetched' = FetchSchema(hideInactive, schema)
    /\ vpc' = "fetched"
    /\ UNCHANGED <<adapter, schema, hideInactive, views, baseViews>>
    /\ UNCHANGED notViewVars

\* Where CreateViews can fail with an error: sql.Open or bootstrap, the
\* statement of the first view, the statement of the second.
CreateFaults == {"none", "open", "all_versions", "latest"}

\* The views over the table that exist when CreateViews is past the two
\* statements or has returned the fault's error.
BaseViewsMade(fault) ==
    CASE fault \in {"open", "all_versions"} -> << >>
      [] fault = "latest" -> <<"LATEST_ALL_VERSIONS">>
      [] fault = "none" -> <<"LATEST_ALL_VERSIONS", "LATEST">>

\* CreateViews reaches the loop over the document types.
ReachesTypeViewsDespiteLatest(fault) == fault \in {"none", "latest"}

ReachesTypeViews(fault) == fault = "none"

\* CreateViews: the two LATEST views, then create_view for the document type;
\* an error on either LATEST view returns before any type-specific view.
CreateViews ==
    /\ vpc = "fetched"
    /\ \E fault \in CreateFaults :
          /\ baseViews' = BaseViewsMade(fault)
          /\ views' = IF ReachesTypeViews(fault)
                      THEN create_view(adapter, <<DocType>>, << >>, fetched,
                                       "data", << >>, << >>)
                      ELSE {}
          /\ vpc' = IF fault = "none" THEN "created" ELSE "failed"
    /\ UNCHANGED <<adapter, schema, hideInactive, fetched>>
    /\ UNCHANGED notViewVars

ViewInit ==
    /\ adapter \in Adapters
    /\ schema \in Schemas(MaxDepth)
    /\ hideInactive \in BOOLEAN
    /\ fetched = NoFields
    /\ views = {}
    /\ baseViews = << >>
    /\ vpc = "start"
    /\ UploadQuiet
    /\ TableIdle
    /\ LoopIdle
    /\ ChunkIdle
    /\ ConfigIdle
    /\ SessionIdle
    /\ QueryIdle
    /\ StreamIdle
    /\ SliceIdle

ViewNext ==
    \/ FetchSchemaStep
    \/ CreateViews

SpecViews == ViewInit /\ [][ViewNext]_vars

\* The schemas nested at most d deep whose records may declare the fields
\* DOCUMENT_ID and LISTITEM_ID themselves: each a TEXT field, present or not,
\* beside CHILD, an active RECORD or RECORD LIST, present or not.
RECURSIVE ItemSchemas(_)
ItemSchemas(d) ==
    LET ids == SUBSET {"DOCUMENT_ID", "LISTITEM_ID"}
        kids == IF d = 0 THEN {}
                ELSE {[Type |-> t, Active |-> TRUE, RecordType |-> s] :
                         t \in {"RECORD", "RECORD LIST"},
                         s \in ItemSchemas(d - 1)}
    IN {[f \in D |-> TextField(TRUE)] : D \in ids}
       \cup {[f \in D \cup {"CHILD"} |->
                 IF f = "CHILD" THEN c ELSE TextField(TRUE)] :
                    D \in ids, c \in kids}

ItemViewInit ==
    /\ adapter \in Adapters
    /\ schema \in ItemSchemas(MaxDepth)
    /\ hideInactive \in BOOLEAN
    /\ fetched = NoFields
    /\ views = {}
    /\ baseViews = << >>
    /\ vpc = "start"
    /\ UploadQuiet
    /\ TableIdle
    /\ LoopIdle
    /\ ChunkIdle
    /\ ConfigIdle
    /\ SessionIdle
    /\ QueryIdle
    /\ StreamIdle
    /\ SliceIdle

SpecItemViews == ItemViewInit /\ [][ViewNext]_vars

\* ============================================================ configuration
\* ResolveConfig, in both forms the repository holds, over five of Config's
\* fields: an int, a string and a bool with a default tag, and the two
\* required strings the SQLITE special case reads.
ConfigFields == {"Wait", "StateDir", "Force", "DatabaseType", "DatabaseDSN"}

notConfigVars == <<loopVars, chunkVars, uploadVars, tableVars, viewVars,
                   sessionVars, queryVars, streamVars, sliceVars>>

\* The two forms: applyDefaults on the zero Config before the environment is
\* read, or after it, skipping the fields the environment gave.
Builds == {"defaults first", "defaults last"}

\* The zero value of the field's Go type.
Zero(f) ==
    CASE f = "Wait" -> 0
      [] f = "Force" -> FALSE
      [] OTHER -> ""

\* The field has a non-empty default tag.
HasDefault(f) == f \in {"Wait", "StateDir", "Force"}

\* The default tag, parsed.
Default(f) ==
    CASE f = "Wait" -> 600
      [] f = "StateDir" -> "."
      [] f = "Force" -> FALSE

\* required:"true"
Required(f) == f \in {"DatabaseType", "DatabaseDSN"}

\* The values a flag or a variable gives a field.
FieldValues(f) ==
    CASE f = "Wait" -> {0, 30}
      [] f = "StateDir" -> {"", "/data"}
      [] f = "Force" -> BOOLEAN
      [] f = "DatabaseType" -> {"SQLITE", "SNOWFLAKE"}
      [] f = "DatabaseDSN" -> {"", "file.db"}

\* A flag or a variable of the field: not given, or given with a value.
Sources(f) ==
    {[set |-> FALSE, val |-> Zero(f)]}
    \cup {[set |-> TRUE, val |-> v] : v \in FieldValues(f)}

\* The command lines, and the environments.
Inputs ==
    {[Wait |-> a, StateDir |-> b, Force |-> c, DatabaseType |-> d,
      DatabaseDSN |-> e] :
        a \in Sources("Wait"), b \in Sources("StateDir"),
        c \in Sources("Force"), d \in Sources("DatabaseType"),
        e \in Sources("DatabaseDSN")}

\* os.LookupEnv("EXECUTESYNC_" + envTag): the variable is present.
LookupEnvNonZero(e, f) == e[f].set /\ e[f].val # Zero(f)

LookupEnv(e, f) == e[f].set

\* env.Unmarshal("EXECUTESYNC_", &cfg): the fields whose variable is present
\* take its value.
Unmarshal(c, e) ==
    [f \in ConfigFields |-> IF e[f].set THEN e[f].val ELSE c[f]]

\* The envOverrides set of the older ResolveConfig.
envOverrides(e) == {f \in ConfigFields : LookupEnv(e, f)}

\* applyDefaults(&cfg, shouldSkip): a field with a default tag, not skipped
\* and still at its zero value, takes the default.
applyDefaultsUnlessSkipped(c, skip) ==
    [f \in ConfigFields |->
        IF HasDefault(f) /\ f \notin skip /\ c[f] = Zero(f)
        THEN Default(f) ELSE c[f]]

\* applyDefaults(cfgVal): every field with a default tag takes the default.
applyDefaults(c) ==
    [f \in ConfigFields |-> IF HasDefault(f) THEN Default(f) ELSE c[f]]

\* applyEnvOverrides(cfgVal): every field whose variable is present takes
\* its value.
applyEnvOverrides(c, e) ==
    [f \in ConfigFields |-> IF LookupEnv(e, f) THEN e[f].val ELSE c[f]]

\* cCtx.IsSet(flagName)
IsSet(x, f) == x[f].set

\* The flag loop: every field whose flag is set takes the flag's value.
applyFlags(c, x) ==
    [f \in ConfigFields |-> IF IsSet(x, f) THEN x[f].val ELSE c[f]]

\* filepath.Join(cfg.StateDir, "execute.sqlite")
Join(dir) ==
    CASE dir = "" -> "execute.sqlite"
      [] dir = "." -> "execute.sqlite"
      [] dir = "/data" -> "/data/execute.sqlite"

\* The special case for SQLITE: without a DSN the database goes to the state
\* directory.
SqliteDSN(c) ==
    IF c["DatabaseType"] \in {"SQLITE", "GOSQLITE"} /\ c["DatabaseDSN"] = ""
    THEN [c EXCEPT !["DatabaseDSN"] = Join(c["StateDir"])]
    ELSE c

\* The required loop found an empty field.
MissingRequired(c) == \E f \in ConfigFields : Required(f) /\ c[f] = Zero(f)

\* The Config at the required loop.
Resolved(b, x, e) ==
    LET fromEnv == IF b = "defaults first"
                   THEN applyEnvOverrides(applyDefaults(ZeroConfig), e)
                   ELSE applyDefaultsUnlessSkipped(Unmarshal(ZeroConfig, e),
                                                   envOverrides(e))
    IN SqliteDSN(applyFlags(fromEnv, x))

\* ResolveConfig: returns the Config, or os.Exit(1) when a required field is
\* empty.
ResolveConfig ==
    /\ rcpc = "start"
    /\ LET c == Resolved(build, cCtx, environ)
       IN IF MissingRequired(c)
          THEN /\ rcpc' = "exited"
               /\ config' = config
          ELSE /\ rcpc' = "returned"
               /\ config' = c
    /\ UNCHANGED <<build, cCtx, environ>>
    /\ UNCHANGED notConfigVars

ConfigInit ==
    /\ build \in Builds
    /\ cCtx \in Inputs
    /\ environ \in Inputs
    /\ config = ZeroConfig
    /\ rcpc = "start"
    /\ UploadIdle
    /\ TableIdle
    /\ ViewIdle
    /\ LoopIdle
    /\ ChunkIdle
    /\ SessionIdle
    /\ QueryIdle
    /\ StreamIdle
    /\ SliceIdle

ConfigNext == ResolveConfig

SpecConfig == ConfigInit /\ [][ConfigNext]_vars

\* ================================================================= sessions
\* The database handle of the adapter operations: sql.Open, bootstrap,
\* defer db.Close(), the operation's own statements, return.
MaxCalls == 2

Operations == {"Upload", "Prune", "CreateViews"}

notSessionVars == <<loopVars, chunkVars, body, tail, lineNo, cur, ci,
                    chunkBytes, writeFault, rows, stats, empty_batch, upc,
                    result, handed, committed, tableVars, viewVars,
                    configVars, queryVars, streamVars, sliceVars>>

\* The adapter opens a handle in each operation; Databricks opens its handle
\* in NewDatabricks and the operations use it.
OpensPerOperation(a) == a # "databricks"

\* The adapter registers defer db.Close() right after sql.Open, before
\* bootstrap, as SQLite does; Snowflake and SQL Server register it after
\* bootstrap has succeeded.
DefersAtOpen(a) == a = "sqlite"

\* The handles left when the function returns: the deferred Close has run.
AfterReturn(h, d) == IF d THEN h - 1 ELSE h

\* The loop, or a command, calls an operation of the adapter.
Call ==
    /\ spc \in {"idle", "returned"}
    /\ calls < MaxCalls
    /\ \E o \in Operations : operation' = o
    /\ calls' = calls + 1
    /\ spc' = "entry"
    /\ UNCHANGED <<adapter, handles, deferred>>
    /\ UNCHANGED notSessionVars

\* sql.Open: an error returns at once, no handle was made.
Open ==
    /\ spc = "entry"
    /\ IF OpensPerOperation(adapter)
       THEN \E ok \in BOOLEAN :
               IF ok
               THEN /\ handles' = handles + 1
                    /\ deferred' = DefersAtOpen(adapter)
                    /\ spc' = "opened"
               ELSE /\ spc' = "returned"
                    /\ UNCHANGED <<handles, deferred>>
       ELSE /\ spc' = "opened"
            /\ UNCHANGED <<handles, deferred>>
    /\ UNCHANGED <<adapter, operation, calls>>
    /\ UNCHANGED notSessionVars

\* bootstrap: an error returns; success registers the deferred Close where it
\* was not registered yet.
Bootstrap ==
    /\ spc = "opened"
    /\ \E ok \in BOOLEAN :
          IF ok
          THEN /\ deferred' = OpensPerOperation(adapter)
               /\ spc' = "ready"
               /\ UNCHANGED handles
          ELSE /\ handles' = AfterReturn(handles, deferred)
               /\ deferred' = FALSE
               /\ spc' = "returned"
    /\ UNCHANGED <<adapter, operation, calls>>
    /\ UNCHANGED notSessionVars

\* The rest of the operation, ending in a return with or without an error.
Return ==
    /\ spc = "ready"
    /\ handles' = AfterReturn(handles, deferred)
    /\ deferred' = FALSE
    /\ spc' = "returned"
    /\ UNCHANGED <<adapter, operation, calls>>
    /\ UNCHANGED notSessionVars

SessionInit ==
    /\ adapter \in Adapters
    /\ operation = "none"
    /\ handles = (IF OpensPerOperation(adapter) THEN 0 ELSE 1)
    /\ deferred = FALSE
    /\ calls = 0
    /\ spc = "idle"
    /\ UploadQuiet
    /\ TableIdle
    /\ ViewIdle
    /\ ConfigIdle
    /\ LoopIdle
    /\ ChunkIdle
    /\ QueryIdle
    /\ StreamIdle
    /\ SliceIdle

SessionNext ==
    \/ Call
    \/ Open
    \/ Bootstrap
    \/ Return

SpecSession == SessionInit /\ [][SessionNext]_vars

\* ============================================================== list views
\* The list-expansion view of a root-level list field, read over the rows of
\* one document version whose chunks are all stored: the chunker's chunks,
\* row i - 1 holding chunks[i] as its data.
notQueryVars == <<loopVars, uploadVars, tableVars, viewVars, configVars,
                  sessionVars, streamVars, sliceVars>>

\* The row of an outer expansion that found no item.
NullRow == 0

\* The view's FROM clause keeps a row of LATEST whose data yields no item:
\* OUTER APPLY OPENJSON in SQL Server, explode_outer in Databricks; LATERAL
\* FLATTEN in Snowflake and json_each in SQLite drop it.
OuterExpansion(a) == a \in {"sqlserver", "databricks"}

\* The items the expansion finds at the field in one row's data.
ItemsAt(d, f) ==
    IF f \in DOMAIN d /\ IsList(d[f]) THEN d[f].items ELSE << >>

\* The view's rows for one row of LATEST.
Expand(a, d, f) ==
    IF ItemsAt(d, f) = << >>
    THEN IF OuterExpansion(a) THEN <<NullRow>> ELSE << >>
    ELSE ItemsAt(d, f)

\* The view's rows over the rows of the document, chunk by chunk.
RECURSIVE ListViewRows(_, _, _)
ListViewRows(a, cs, f) ==
    IF cs = << >> THEN << >>
    ELSE Expand(a, Head(cs), f) \o ListViewRows(a, Tail(cs), f)

\* select * from the list-expansion view of every list field of the document.
QueryListViews ==
    /\ cpc = "done"
    /\ qpc = "start"
    /\ viewRows' = [f \in {g \in DataFields : IsList(doc[g])} |->
                       ListViewRows(adapter, chunks, f)]
    /\ qpc' = "done"
    /\ UNCHANGED chunkVars
    /\ UNCHANGED notQueryVars

ListViewInit ==
    /\ adapter \in Adapters
    /\ chunkSize \in 1..MaxChunkSize
    /\ doc \in Records
    /\ data = doc
    /\ chunks = << >>
    /\ visited = {}
    /\ cpc = "range"
    /\ prevChunks = << >>
    /\ runs = 1
    /\ viewRows = << >>
    /\ qpc = "start"
    /\ LoopIdle
    /\ UploadQuiet
    /\ TableIdle
    /\ ViewIdle
    /\ ConfigIdle
    /\ SessionIdle
    /\ StreamIdle
    /\ SliceIdle

ListViewNext ==
    \/ RangeStep
    \/ Assemble
    \/ QueryListViews

SpecListView == ListViewInit /\ [][ListViewNext]_vars

\* ======================================================== failing streams
\* The record loop over a page body whose connection fails: ReadString then
\* returns an error that is not io.EOF, and returns it again on every later
\* read.
MaxReadErrors == 2

\* The read of line n meets the failure.
Broken(at, n) == at # 0 /\ n >= at

\* The head of the record loop when nextRecord returns (nil, err) with an
\* error other than io.EOF: the error is logged, or ignored, data is nil and
\* the loop continues with the next call of nextRecord.
ReadError ==
    /\ upc = "read"
    /\ Broken(failAt, lineNo)
    /\ readErrors < MaxReadErrors
    /\ readErrors' = readErrors + 1
    /\ UNCHANGED failAt
    /\ UNCHANGED <<loopVars, chunkVars, uploadVars, tableVars, viewVars,
                   configVars, sessionVars, queryVars, sliceVars>>

\* The head of the record loop while the connection holds.
ReadIntact ==
    /\ ~Broken(failAt, lineNo)
    /\ ReadRecord

StreamInit ==
    /\ adapter \in Adapters
    /\ body \in Bodies
    /\ tail \in BOOLEAN
    /\ failAt \in 0..(MaxLines + 1)
    /\ failAt <= Len(body) + 1
    /\ readErrors = 0
    /\ lineNo = 1
    /\ cur = 0
    /\ ci = 0
    /\ chunkBytes = 0
    /\ writeFault = FALSE
    /\ rows = << >>
    /\ stats = NoStats
    /\ empty_batch = TRUE
    /\ upc = "read"
    /\ result = NoResult
    /\ handed = << >>
    /\ committed = << >>
    /\ LoopIdle
    /\ ChunkIdle
    /\ TableIdle
    /\ ViewIdle
    /\ ConfigIdle
    /\ SessionIdle
    /\ QueryIdle
    /\ SliceIdle

StreamNext ==
    \/ ReadError
    \/ ReadIntact
    \/ WriteChunk
    \/ EndDocument
    \/ Finish

SpecStream == StreamInit /\ [][StreamNext]_vars

\* ============================================================== slice loop
\* The body of the chunker's range for one list key, with the inner loop
\* for i := 0; i < len(list); i += s.chunkSize taken pass by pass, and
\* s.chunkSize as ResolveConfig resolves the ChunkSize field.
MaxSlices == 3

DefaultChunkSize == 10000

\* The chunk sizes a flag or a variable gives.
ChunkSizeValues == {0, 2}

ChunkSizeSources ==
    {[set |-> FALSE, val |-> 0]}
    \cup {[set |-> TRUE, val |-> v] : v \in ChunkSizeValues}

\* cfg.ChunkSize after ResolveConfig: the flag, else the variable, else the
\* default tag; NewDatabase hands it to the adapter as it is.
ResolveChunkSize(src) ==
    IF src.flag.set THEN src.flag.val
    ELSE IF src.env.set THEN src.env.val
    ELSE DefaultChunkSize

notSliceVars == <<loopVars, uploadVars, tableVars, viewVars, configVars,
                  sessionVars, queryVars, streamVars>>

notSliceChunkVars == <<doc, data, chunks, visited, cpc, prevChunks, runs>>

\* if len(list) > s.chunkSize
SizeTest ==
    /\ slpc = "test"
    /\ IF Oversized(keyList, chunkSize)
       THEN slpc' = "loop" /\ si' = 0
       ELSE slpc' = "kept" /\ UNCHANGED si
    /\ UNCHANGED <<sizeSource, keyList, slices, chunkSize>>
    /\ UNCHANGED <<notSliceChunkVars, notSliceVars>>

\* One pass of the slice loop: the slice list[i:end] is appended, i += chunkSize.
SliceStep ==
    /\ slpc = "loop"
    /\ si < Len(keyList)
    /\ Len(slices) < MaxSlices
    /\ slices' = Append(slices,
                        SubSeq(keyList, si + 1, SliceEnd(si, chunkSize, Len(keyList))))
    /\ si' = si + chunkSize
    /\ UNCHANGED <<sizeSource, keyList, slpc, chunkSize>>
    /\ UNCHANGED <<notSliceChunkVars, notSliceVars>>

\* The loop's test fails: delete(data, key).
SliceExit ==
    /\ slpc = "loop"
    /\ si >= Len(keyList)
    /\ slpc' = "deleted"
    /\ UNCHANGED <<sizeSource, keyList, si, slices, chunkSize>>
    /\ UNCHANGED <<notSliceChunkVars, notSliceVars>>

SliceInit ==
    /\ sizeSource \in [flag : ChunkSizeSources, env : ChunkSizeSources]
    /\ chunkSize = ResolveChunkSize(sizeSource)
    /\ keyList \in {Items(n) : n \in 0..MaxListLen}
    /\ si = 0
    /\ slices = << >>
    /\ slpc = "test"
    /\ doc = << >>
    /\ data = << >>
    /\ chunks = << >>
    /\ visited = {}
    /\ cpc = "idle"
    /\ prevChunks = << >>
    /\ runs = 0
    /\ LoopIdle
    /\ UploadIdle
    /\ TableIdle
    /\ ViewIdle
    /\ ConfigIdle
    /\ SessionIdle
    /\ QueryIdle
    /\ StreamIdle

SliceNext ==
    \/ SizeTest
    \/ SliceStep
    \/ SliceExit

SpecSlice == SliceInit /\ [][SliceNext]_vars

\* ==================================================================== claims
\* The response is a failed fetch: a request error or a status other than 200.
FailedResp(r) == r.err \/ r.status # StatusOK

\* The response carries X-Sync-Truncated: false, in any spelling.
FalseFlag(r) == r.truncated \in {"false", "False"}

\* C1: the cursor file holds a page's cursor only if Upload for that page had
\* returned without error when it was written; the write is reached, and the
\* truncation test after it, only with such an Upload behind.
C1_CursorOnlyAfterAcceptedUpload ==
    /\ cursorSource.page =>
          /\ cursorSource.accepted
          /\ cursorFile = saveLastSyncDate(cursorSource.mark)
    /\ pc \in {"save", "check"} => upload.called /\ ~upload.err
    /\ pc = "check" => cursorSource.page /\ cursorSource.mark = resp.mark

C1_Witness ==
    /\ pc = "check"
    /\ cursorSource.page
    /\ cursorSource.mark = resp.mark
    /\ upload.cnt > 0
    /\ pages = 2

C3_CompletePageEndsIteration ==
    /\ []((pc = "check" /\ FalseFlag(resp)) =>
             (upload.called /\ ~upload.err
                /\ cursorFile = saveLastSyncDate(resp.mark)))
    /\ []((pc = "iter_end" /\ ~iterErr /\ FalseFlag(resp)) =>
             cursorFile = saveLastSyncDate(resp.mark))
    /\ [][(pc = "check" /\ FalseFlag(resp)) =>
             /\ pc' \in {"check", "iter_end", "killed"}
             /\ ~iterErr'
             /\ pages' = pages
             /\ reqSince' = reqSince
             /\ cursorFile' = cursorFile]_vars

C3_Witness ==
    /\ pc = "iter_end"
    /\ ~iterErr
    /\ FalseFlag(resp)
    /\ pages = 2
    /\ upload.cnt > 0
    /\ cursorFile.date = resp.mark

\* The parts of C4 that do not depend on the mode: a failed fetch ends the
\* iteration with an error in the same step, with no Upload and no write of
\* the cursor, and the file holds what the last accepted page stored.
C4_FailedFetchStep ==
    (pc = "fetch" /\ pages' = pages + 1 /\ FailedResp(resp')) =>
        /\ pc' = "iter_end"
        /\ iterErr'
        /\ ~upload'.called
        /\ cursorFile' = cursorFile
        /\ cursorSource' = cursorSource

C4_AfterFailedFetch ==
    (pc = "iter_end" /\ FailedResp(resp)) =>
        /\ ~upload.called
        /\ cursorSource.page =>
              cursorSource.accepted /\ cursorFile = saveLastSyncDate(cursorSource.mark)

\* The driver sleeps and then starts a new iteration.
C4_SleepThenIterate ==
    /\ (pc = "sleep" /\ pc' \notin {"sleep", "killed"}) => pc' = "sync"
    /\ (pc = "sync" /\ pc' \notin {"sync", "killed"}) => (pc' = "fetch" /\ pages' = 0)

\* C4: a failed fetch ends the iteration at once with no Upload and no write
\* of the cursor, the file keeps what the last accepted page stored, and in
\* continuous mode (the sync command with a wait other than 0, the case in
\* which sync does not leave its loop) the driver sleeps and then starts a
\* new iteration.
C4_FetchFailureEndsIteration ==
    /\ []C4_AfterFailedFetch
    /\ [][/\ C4_FailedFetchStep
          /\ C4_SleepThenIterate
          /\ (pc = "iter_end" /\ FailedResp(resp) /\ ~onetime /\ cfg.Wait # 0
                /\ pc' \notin {"iter_end", "killed"}) =>
                 (pc' = "sleep" /\ cursorFile' = cursorFile)]_vars

C4_Witness ==
    /\ pc = "sleep"
    /\ ~onetime
    /\ iterErr
    /\ FailedResp(resp)
    /\ pages = 2
    /\ cursorSource.page
    /\ cursorFile = saveLastSyncDate(cursorSource.mark)

\* C5: when push (onetime) has ended after an iteration that failed, sync has
\* returned that error.
C5_OneShotReturnsError ==
    (pc = "exited" /\ onetime /\ iterErr) => ret = "error"

\* C6: every Upload of an iteration gets the same batch_date, batch_date
\* changes only where an iteration starts, and a page requested after another
\* page of the iteration is requested since that page's cursor.
C6_OneBatchDatePerIteration ==
    /\ [](Cardinality(iterBatches) <= 1)
    /\ [][/\ (batch_date' # batch_date /\ Live) => (pc = "sync" /\ pages' = 0)
          /\ (pc = "fetch" /\ pages > 0 /\ pages' = pages + 1) =>
                 (reqSince' = resp.mark /\ ~FalseFlag(resp))]_vars

C6_Witness ==
    /\ pc = "save"
    /\ pages = 2
    /\ iterBatches = {batch_date}
    /\ now > batch_date
    /\ reqSince > Sentinel

\* C7: the since of the first request of an iteration is the stored cursor,
\* or the sentinel when the file is absent or empty or the force flag is set.
C7_IterationStartsAtStoredCursor ==
    /\ (pc = "fetch" /\ pages = 0) =>
          lastSyncDate = IF cfg.Force \/ ~cursorFile.exists \/ cursorFile.date = 0
                         THEN Sentinel
                         ELSE cursorFile.date
    /\ (pc \in {"upload", "iter_end"} /\ pages = 1 /\ ~cursorSource.page) =>
          reqSince = IF cfg.Force \/ ~cursorFile.exists \/ cursorFile.date = 0
                     THEN Sentinel
                     ELSE cursorFile.date

C7_Witness ==
    /\ pc = "upload"
    /\ pages = 1
    /\ ~cfg.Force
    /\ cursorFile.exists
    /\ cursorFile.ws
    /\ reqSince = cursorFile.date
    /\ reqSince > Sentinel

\* The top-level keys of record d that hold an array of more than c items.
OversizedKeys(d, c) ==
    {k \in DOMAIN d : d[k].kind = "list" /\ Len(d[k].items) > c}

\* The slices of field key found in cs[i], cs[i+1], ..., concatenated in
\* that order.
RECURSIVE ConcatSlices(_, _, _)
ConcatSlices(cs, key, i) ==
    IF i > Len(cs)
    THEN << >>
    ELSE (IF key \in DOMAIN cs[i] THEN cs[i][key].items ELSE << >>)
         \o ConcatSlices(cs, key, i + 1)

\* The chunk indices 1.. (positions 2.. of chunks) that carry field key.
SliceIndices(cs, key) == {i \in 2..Len(cs) : key \in DOMAIN cs[i]}

CeilDiv(n, c) == (n + c - 1) \div c

\* C8: once a record is chunked, every oversized top-level array is the
\* concatenation, in chunk order, of its slices in chunks 1.., and chunk 0
\* holds every other field with the value it had.
C8_ChunkRoundTrip ==
    cpc = "done" =>
        /\ \A k \in OversizedKeys(doc, chunkSize) :
              ConcatSlices(chunks, k, 2) = doc[k].items
        /\ \A k \in (DOMAIN doc) \ OversizedKeys(doc, chunkSize) :
              k \in DOMAIN chunks[1] /\ chunks[1][k] = doc[k]

C8_Witness ==
    /\ cpc = "done"
    /\ chunkSize = 2
    /\ Len(doc["A"].items) = 5
    /\ Len(doc["B"].items) = 3
    /\ OversizedKeys(doc, chunkSize) = {"A", "B"}
    /\ Len(chunks) = 6

\* The 25000 NOTES of the end-to-end example, sliced by 10000.
EndToEndSlices ==
    SliceRecords(FieldValue("DOCUMENT_ID"), "NOTES", Items(25000), 0, 10000)

\* C9: chunk 0 holds exactly the fields that are not arrays of more than
\* chunkSize items, unchanged; every further chunk holds DOCUMENT_ID and one
\* non-empty slice of one removed field; a field of L items gives ceil(L/c)
\* slices, all of c items except possibly its last; 25000 items sliced by
\* 10000 give slices of 10000, 10000 and 5000 items.
C9_ChunkShape ==
    /\ cpc = "done" =>
        /\ DOMAIN chunks[1] = (DOMAIN doc) \ OversizedKeys(doc, chunkSize)
        /\ \A k \in DOMAIN chunks[1] : chunks[1][k] = doc[k]
        /\ \A i \in 2..Len(chunks) :
              \E k \in OversizedKeys(doc, chunkSize) :
                 /\ DOMAIN chunks[i] = {"DOCUMENT_ID", k}
                 /\ chunks[i]["DOCUMENT_ID"] = doc["DOCUMENT_ID"]
                 /\ chunks[i][k].kind = "list"
                 /\ Len(chunks[i][k].items) \in 1..chunkSize
        /\ \A k \in OversizedKeys(doc, chunkSize) :
              LET idx == SliceIndices(chunks, k)
                  L == Len(doc[k].items)
              IN /\ Cardinality(idx) = CeilDiv(L, chunkSize)
                 /\ \A i \in idx :
                       \/ Len(chunks[i][k].items) = chunkSize
                       \/ /\ \A j \in idx : j <= i
                          /\ Len(chunks[i][k].items) =
                                L - chunkSize * (Cardinality(idx) - 1)
    /\ Len(EndToEndSlices) = 3
    /\ Len(EndToEndSlices[1]["NOTES"].items) = 10000
    /\ Len(EndToEndSlices[2]["NOTES"].items) = 10000
    /\ Len(EndToEndSlices[3]["NOTES"].items) = 5000

C9_Witness ==
    /\ cpc = "done"
    /\ chunkSize = 2
    /\ Len(doc["A"].items) = 5
    /\ doc["B"] = ListValue(Items(2))
    /\ Len(chunks) = 4
    /\ "B" \in DOMAIN chunks[1]
    /\ Len(chunks[4]["A"].items) = 1

\* C10: chunking the same record a second time with the same chunkSize gives
\* the same chunks at the same indices.
C10_SameChunksEveryRun ==
    (cpc = "done" /\ runs = 2) => chunks = prevChunks

\* ------------------------------------------------------------ upload claims
\* The lines of the body that hold a record with a complete envelope, and
\* those that hold a record with an envelope field missing or null.
OkLines(b) ==
    {i \in 1..Len(b) : b[i].json /\ validateRequiredFields(RecordOf(b[i]))}

DefectiveLines(b) ==
    {i \in 1..Len(b) : b[i].json /\ ~validateRequiredFields(RecordOf(b[i]))}

RowLines(rs) == {rs[k].line : k \in 1..Len(rs)}

\* The chunk loop is about to process a chunk of a record whose envelope is
\* complete.
AtChunk ==
    /\ upc = "chunks"
    /\ ci < body[cur].n
    /\ validateRequiredFields(RecordOf(body[cur]))

ThisChunk == [line |-> cur, chunk |-> ci]

\* C11: for every adapter, a record with an envelope field missing or null is
\* rejected: Upload does not fail because of it, no row is written for it, it
\* is not counted as processed, and the remaining records of the page are
\* processed (when the record loop ends, every complete record is counted).
C11_DefectiveRecordRejected ==
    /\ upc # "panicked"
    /\ RowLines(rows) \cap DefectiveLines(body) = {}
    /\ RowLines(committed) \cap DefectiveLines(body) = {}
    /\ stats.DocumentsProcessed
          <= Cardinality(OkLines(body) \cap 1..(lineNo - 1))
    /\ upc = "finish" =>
          stats.DocumentsProcessed = Cardinality(OkLines(body))

\* C12: for a chunk of a complete record whose write does not fail: at least
\* 15 MiB, it is not written and is counted as a failure; at least 8 MiB and
\* under 15 MiB, it is written and counted as a warning; under 8 MiB, it is
\* written with no warning; in each case Upload goes on to the next chunk.
C12_SizePolicyStep ==
    (AtChunk /\ ~writeFault') =>
        /\ chunkBytes' >= ExtremeJSONSize =>
              /\ rows' = rows
              /\ stats'.ExtremeJSONFailures = stats.ExtremeJSONFailures + 1
        /\ (chunkBytes' >= WarningJSONSize /\ chunkBytes' < ExtremeJSONSize) =>
              /\ rows' = Append(rows, ThisChunk)
              /\ stats'.LargeJSONWarnings = stats.LargeJSONWarnings + 1
        /\ chunkBytes' < WarningJSONSize =>
              /\ rows' = Append(rows, ThisChunk)
              /\ stats'.LargeJSONWarnings = stats.LargeJSONWarnings
              /\ stats'.ExtremeJSONFailures = stats.ExtremeJSONFailures
        /\ upc' = "chunks"
        /\ ci' = ci + 1

C12_SizePolicy == [][C12_SizePolicyStep]_vars

\* The failures of a page as a whole: before the first record or after the
\* last one.
PageCauses ==
    {"open", "bootstrap", "flush", "put", "pipe", "dbfs", "copy", "commit"}

\* C19: when a chunk of a complete record is not written (size policy or a
\* failed write), the rejection is counted, the rows written so far stay,
\* Upload goes on to the next chunk, and Upload returns an error only for a
\* failure of the page as a whole.
C19_RejectionStep ==
    (AtChunk /\ rows' # Append(rows, ThisChunk)) =>
        /\ rows' = rows
        /\ upc' = "chunks"
        /\ ci' = ci + 1
        /\ stats'.ExtremeJSONFailures + stats'.ChunksFailedToWrite
              = stats.ExtremeJSONFailures + stats.ChunksFailedToWrite + 1

C19_ChunkRejectionSkipped ==
    /\ [](result.err => result.cause \in PageCauses)
    /\ [][C19_RejectionStep]_vars

\* The lines read so far that json.Unmarshal accepts, in body order.
JsonLinesRead ==
    SelectSeq(Items(lineNo - 1), LAMBDA i : body[i].json)

C20_NoRowNoSkip ==
    /\ handed = JsonLinesRead
    /\ \A i \in RowLines(rows) \cup RowLines(committed) : body[i].json
    /\ upc = "finish" => lineNo = Len(body) + 1

C20_MalformedLineStep ==
    (upc = "read" /\ lineNo <= Len(body) /\ ~body[lineNo].json) =>
        /\ upc' = "read"
        /\ lineNo' = lineNo + 1
        /\ UNCHANGED <<rows, committed, stats, result, handed, empty_batch>>

\* C20: a newline-terminated line of the body that is not valid JSON gives no
\* row and no error (reading it changes only the reader's position and
\* Upload goes on reading), and every line read after it that is valid JSON
\* is handed to the adapter, in body order; the record loop ends only when
\* every line has been read.
C20_MalformedLineSkipped ==
    /\ []C20_NoRowNoSkip
    /\ [][C20_MalformedLineStep]_vars

C20_Witness ==
    /\ upc = "returned"
    /\ ~result.err
    /\ Len(body) = 2
    /\ ~body[1].json
    /\ body[2].json
    /\ handed = <<2>>
    /\ RowLines(committed) = {2}
    /\ result.count = 1


\* ------------------------------------------------------------- table claims
OfVersion(r, op) ==
    r.type = op.type /\ r.id = op.id /\ r.version = op.version

\* The (type, id, version) triples LATEST selects.
LatestKeys(t) == {<<r.type, r.id, r.version>> : r \in RowSet(LATEST(t))}

\* The step uploads a document version that the table already holds under
\* another batch_date.
SecondUpload ==
    /\ tableOp'.op = "upload"
    /\ uploads' = uploads + 1
    /\ \E q \in RowSet(table) :
          OfVersion(q, tableOp') /\ q.batch_date # tableOp'.batch_date

\* C13: when a document version is uploaded under a second batch_date,
\* LATEST_ALL_VERSIONS then holds, for that version, exactly the rows of the
\* later batch_date, and LATEST selects the same (type, id, version) triples
\* as before the second upload.
C13_Step ==
    SecondUpload =>
        LET later == Max({q.batch_date : q \in {q \in RowSet(table') :
                                               OfVersion(q, tableOp')}})
        IN /\ SelectSeq(LATEST_ALL_VERSIONS(table'),
                        LAMBDA r : OfVersion(r, tableOp'))
              = SelectSeq(table', LAMBDA r : /\ OfVersion(r, tableOp')
                                             /\ r.batch_date = later)
           /\ later = tableOp'.batch_date
           /\ LatestKeys(table') = LatestKeys(table)

C13_IdempotentConvergence == [][C13_Step]_vars

C13_Witness ==
    /\ tableOp = [op |-> "upload", type |-> "WELL", id |-> "d1",
                  version |-> 1, batch_date |-> 2]
    /\ \E q \in RowSet(table) :
          q.type = "WELL" /\ q.version = 1 /\ q.batch_date = 1 /\ q.chunk = 1
    /\ \E q \in RowSet(table) : q.type = "WELL" /\ q.version = 2
    /\ \A r \in RowSet(LATEST_ALL_VERSIONS(table)) :
          (r.type = "WELL" /\ r.version = 1) => r.batch_date = 2
    /\ LatestKeys(table) = {<<"WELL", "d1", 2>>}

\* A row of t with the same (type, id, version) has a later batch_date.
Superseded(r, t) ==
    \E q \in RowSet(t) : /\ q.type = r.type
                         /\ q.id = r.id
                         /\ q.version = r.version
                         /\ q.batch_date > r.batch_date

\* C14: a Prune that runs its DELETE removes exactly the rows whose
\* batch_date is not the maximum of their (type, id, version): what is left
\* is what LATEST_ALL_VERSIONS selected, every chunk of it.
C14_Step ==
    tableOp'.op = "prune" =>
        /\ table' = SelectSeq(table, LAMBDA r : ~Superseded(r, table))
        /\ table' = LATEST_ALL_VERSIONS(table)

C14_PruneKeepsLatestBatch == [][C14_Step]_vars

C14_Witness ==
    /\ tableOp.op = "prune"
    /\ adapter = "databricks"
    /\ uploads = 3
    /\ Len(table) = 3
    /\ \A i \in 1..Len(table) : table[i].batch_date = 2
    /\ {table[i].version : i \in 1..Len(table)} = {1, 2}

\* C15: the table holds at most one row per
\* (batch_date, type, id, version, chunk).
C15_UniqueRowKey ==
    \A i, j \in 1..Len(table) : SameKey(table[i], table[j]) => i = j


\* ------------------------------------------------------------- view claims
\* The paths of field names, at most MaxDepth + 1 long.
FieldPaths == UNION {[1..k -> SchemaFields] : k \in 1..(MaxDepth + 1)}

\* p leads to a field of s.
RECURSIVE ValidPath(_, _)
ValidPath(s, p) ==
    /\ p[1] \in DOMAIN s
    /\ Len(p) > 1 => ValidPath(s[p[1]].RecordType, Tail(p))

\* The metadata of the field p leads to.
RECURSIVE FieldAt(_, _)
FieldAt(s, p) ==
    IF Len(p) = 1 THEN s[p[1]] ELSE FieldAt(s[p[1]].RecordType, Tail(p))

\* How many of the fields along p, the last included, are RECORD LISTs.
ListsAlong(s, p) ==
    Cardinality({i \in 1..Len(p) :
                    FieldAt(s, SubSeq(p, 1, i)).Type = "RECORD LIST"})

\* The fields along p before the last are RECORDs or RECORD LISTs.
Nested(s, p) ==
    \A i \in 1..(Len(p) - 1) :
        FieldAt(s, SubSeq(p, 1, i)).Type \in {"RECORD", "RECORD LIST"}

ViewNamed(p) == {v \in views : v.name = <<DocType>> \o p}

\* C16: of the schema handed to CreateViews, no RECORD LIST reached through
\* another RECORD LIST (directly or through RECORDs) has a view, nor has
\* anything below it; a RECORD LIST reached from the root through RECORDs
\* only has a view that flattens that list; a RECORD reached through at most
\* one RECORD LIST has a view, with a column NAME when it has a TEXT field
\* NAME.
C16_NoListInList ==
    vpc = "created" =>
        \A p \in FieldPaths :
            (ValidPath(fetched, p) /\ Nested(fetched, p)) =>
                LET m == FieldAt(fetched, p)
                    n == ListsAlong(fetched, p)
                IN /\ n >= 2 => ViewNamed(p) = {}
                   /\ (m.Type = "RECORD LIST" /\ n = 1) =>
                         \E v \in ViewNamed(p) : v.flatten = p
                   /\ (m.Type = "RECORD" /\ n <= 1) =>
                         \E v \in ViewNamed(p) :
                            ("NAME" \in DOMAIN m.RecordType
                             /\ m.RecordType["NAME"].Type = "TEXT")
                               => "NAME" \in v.columns

C16_Witness ==
    /\ vpc = "created"
    /\ adapter = "snowflake"
    /\ fetched = schema
    /\ ValidPath(schema, <<"CHILD", "CHILD", "CHILD", "NAME">>)
    /\ FieldAt(schema, <<"CHILD">>).Type = "RECORD LIST"
    /\ FieldAt(schema, <<"CHILD", "CHILD">>).Type = "RECORD"
    /\ FieldAt(schema, <<"CHILD", "CHILD", "CHILD">>).Type = "RECORD LIST"
    /\ "NAME" \in DOMAIN FieldAt(schema, <<"CHILD", "CHILD">>).RecordType
    /\ {v.name : v \in views} =
          {<<DocType>>, <<DocType, "CHILD">>, <<DocType, "CHILD", "CHILD">>}
    /\ \E v \in ViewNamed(<<"CHILD", "CHILD">>) :
          "NAME" \in v.columns /\ v.flatten = <<"CHILD">>

\* The inactive fields of the upstream schema leave no trace in the views: no
\* view for the field or below it, no column for it in its parent's view.
NoTraceOfInactive ==
    vpc = "created" =>
        \A p \in FieldPaths :
            (/\ ValidPath(schema, p)
             /\ \E i \in 1..Len(p) : ~FieldAt(schema, SubSeq(p, 1, i)).Active) =>
                /\ ViewNamed(p) = {}
                /\ \A v \in ViewNamed(SubSeq(p, 1, Len(p) - 1)) :
                      p[Len(p)] \notin v.columns

\* C17: a field with Active = false, at any depth, gives no column and no
\* child view.
C17_InactiveFieldsDropped == NoTraceOfInactive

\* C17 as the code has it: when cfg.HideInactive is set, a field with
\* Active = false, at any depth, gives no column and no child view.
C17_InactiveFieldsDroppedWhenHidden == hideInactive => NoTraceOfInactive

C17_Witness ==
    /\ vpc = "created"
    /\ hideInactive
    /\ ValidPath(schema, <<"CHILD", "CHILD", "NAME">>)
    /\ ValidPath(schema, <<"CHILD", "NAME">>)
    /\ FieldAt(schema, <<"CHILD">>).Active
    /\ FieldAt(schema, <<"CHILD">>).Type = "RECORD"
    /\ FieldAt(schema, <<"CHILD", "NAME">>).Active = FALSE
    /\ FieldAt(schema, <<"CHILD", "CHILD">>).Active = FALSE
    /\ \E v \in ViewNamed(<<"CHILD">>) : v.columns = {}
    /\ ViewNamed(<<"CHILD", "CHILD">>) = {}


\* ------------------------------------------------------ configuration claims
\* The default the field declares: its default tag, or the zero value.
Declared(f) == IF HasDefault(f) THEN Default(f) ELSE Zero(f)

\* The value the precedence rule gives the field.
ByPrecedence(f) ==
    IF cCtx[f].set THEN cCtx[f].val
    ELSE IF environ[f].set THEN environ[f].val
    ELSE Declared(f)

\* C18: every field of the returned Config is the flag's value if the flag is
\* set, else the variable's value if the variable is present, zero included,
\* else the declared default.
C18_FlagEnvDefault ==
    rcpc = "returned" => \A f \in ConfigFields : config[f] = ByPrecedence(f)

\* The database type is SQLITE or GOSQLITE and the rule gives no DSN.
SqliteWithoutDSN ==
    /\ ByPrecedence("DatabaseType") \in {"SQLITE", "GOSQLITE"}
    /\ ByPrecedence("DatabaseDSN") = ""

\* C18 as the code has it: the same rule for every field, except that the
\* DSN of a SQLITE database the rule leaves empty is execute.sqlite in the
\* state directory.
C18_FlagEnvDefaultButSqliteDSN ==
    rcpc = "returned" =>
        \A f \in ConfigFields :
            IF f = "DatabaseDSN" /\ SqliteWithoutDSN
            THEN config[f] = Join(config["StateDir"])
            ELSE config[f] = ByPrecedence(f)

C18_Witness ==
    /\ rcpc = "returned"
    /\ build = "defaults last"
    /\ ~cCtx["Wait"].set /\ environ["Wait"] = [set |-> TRUE, val |-> 0]
    /\ config["Wait"] = 0
    /\ cCtx["StateDir"].set /\ environ["StateDir"].set
    /\ cCtx["StateDir"].val # environ["StateDir"].val
    /\ config["StateDir"] = "/data"
    /\ ~cCtx["Force"].set /\ ~environ["Force"].set
    /\ ~cCtx["DatabaseDSN"].set /\ ~environ["DatabaseDSN"].set
    /\ config["DatabaseDSN"] = "/data/execute.sqlite"


\* ------------------------------------------------------------ session claims
\* C21: when an adapter operation has returned, on whatever path, no database
\* handle is open.
C21_SessionReleased == spc = "returned" => handles = 0


\* The view expands a list: its FROM clause carries a flatten clause.
ListExpansion(v) == v.flatten # << >>

\* C22: every compiled view selects from LATEST, filtered by its document
\* type, and is restricted to chunk 0, list-expansion views included.
C22_AllViewsChunkZero ==
    \A v \in views : v.from = "LATEST" /\ v.type = DocType /\ v.chunk0

\* C22 as the code has it: every compiled view selects from LATEST, filtered
\* by its document type; the views without a list expansion are restricted
\* to chunk 0 and the list-expansion views read every chunk.
C22_OnlyPlainViewsChunkZero ==
    \A v \in views :
        /\ v.from = "LATEST"
        /\ v.type = DocType
        /\ v.chunk0 <=> ~ListExpansion(v)

C22_Witness ==
    /\ vpc = "created"
    /\ \E v \in views : ListExpansion(v) /\ ~v.chunk0 /\ v.type = DocType
    /\ \E v \in views : Len(v.name) > 1 /\ ~ListExpansion(v) /\ v.chunk0


\* How many columns of the view are called c: the synthetic one, and the one
\* create_view's loop makes of a field of that name.
ColumnCount(v, c) ==
    (IF c \in v.synthetic THEN 1 ELSE 0) + (IF c \in v.columns THEN 1 ELSE 0)

\* The view's column LISTITEM_ID reads the current list item: the synthetic
\* column does, and so does the loop's column in the view of the list itself.
FromListItem(v) ==
    \/ "LISTITEM_ID" \in v.synthetic
    \/ "LISTITEM_ID" \in v.columns /\ v.flatten = Tail(v.name)

\* C23: a view in list context has exactly one DOCUMENT_ID column and exactly
\* one LISTITEM_ID column, read from the current list item; a view outside
\* list context has no synthetic LISTITEM_ID column.
C23_ListItemColumn ==
    vpc = "created" =>
        \A v \in views :
            /\ ColumnCount(v, "DOCUMENT_ID") = 1
            /\ IF ListExpansion(v)
               THEN ColumnCount(v, "LISTITEM_ID") = 1 /\ FromListItem(v)
               ELSE "LISTITEM_ID" \notin v.synthetic


\* C24: the type-specific views exist only after LATEST_ALL_VERSIONS and then
\* LATEST have been created, in that order, and a CreateViews that failed on
\* either has created no type-specific view.
C24_LatestViewsFirst ==
    /\ baseViews \in {<< >>, <<"LATEST_ALL_VERSIONS">>,
                      <<"LATEST_ALL_VERSIONS", "LATEST">>}
    /\ views # {} => baseViews = <<"LATEST_ALL_VERSIONS", "LATEST">>
    /\ vpc = "created" => baseViews = <<"LATEST_ALL_VERSIONS", "LATEST">>
    /\ vpc = "failed" => views = {} /\ Len(baseViews) < 2

C24_Witness ==
    /\ vpc = "failed"
    /\ baseViews = <<"LATEST_ALL_VERSIONS">>
    /\ "CHILD" \in DOMAIN fetched
    /\ views = {}


\* ------------------------------------------------------------- chunk claims
\* C25: when Upload has returned, every document with a row of chunk 1 or
\* more in the warehouse has its row of chunk 0 there too.
C25_BaseRecordStored ==
    upc = "returned" =>
        \A i \in 1..Len(committed) :
            committed[i].chunk >= 1 =>
                \E j \in 1..Len(committed) :
                    /\ committed[j].line = committed[i].line
                    /\ committed[j].chunk = 0


\* How many of the rows are the item.
Occurrences(rs, item) == Cardinality({i \in 1..Len(rs) : rs[i] = item})

\* C26: the list-expansion view of a root-level list field returns one row
\* for every item of the document's list, none twice, and no other row.
C26_OneRowPerElement ==
    qpc = "done" =>
        \A f \in DOMAIN viewRows :
            /\ Len(viewRows[f]) = Len(doc[f].items)
            /\ \A i \in 1..Len(doc[f].items) :
                  Occurrences(viewRows[f], doc[f].items[i]) = 1


\* ------------------------------------------------------- record loop claims
\* The records of the body in body order: its valid lines and, numbered after
\* them, the record no newline follows, if there is one.
BodyRecords ==
    SelectSeq(Items(Len(body) + (IF tail THEN 1 ELSE 0)),
              LAMBDA i : i > Len(body) \/ body[i].json)

\* C27: when the record loop has ended, every record of the body has been
\* handed to Upload once and in body order, the final record without a
\* newline included.
C27_EveryRecordHanded == upc = "finish" => handed = BodyRecords


\* C28: the call of nextRecord that returns an error other than io.EOF is the
\* last of the page: the record loop is left with it.
C28_ReadErrorEndsPage ==
    [][readErrors' > readErrors => upc' \in {"finish", "returned"}]_vars


\* ----------------------------------------------------- page sequence claims
\* The response flags its page as truncated.
TruncatedFlag(r) == ToUpper(r.truncated) = "TRUE"

\* C29: after an uploaded page the iteration requests a further page only if
\* the page's response flagged it as truncated; a response that flags false,
\* or carries no flag, ends the iteration.
C29_FurtherPageOnlyIfTruncated ==
    [][(pc = "check" /\ pc' = "fetch") => TruncatedFlag(resp)]_vars


\* ------------------------------------------------------- slice loop claims
\* C30: for every chunk size ResolveConfig produces, 0 included, every pass
\* of the slice loop brings i closer to the end of the list, so that the
\* loop ends.
C30_SliceLoopAdvances ==
    [][slices' # slices => si' > si]_vars


====
